---- MODULE Spec2Model ----
(***************************************************************************)
(* Two-party micropayment channel with Pedersen commitments, Schnorr       *)
(* opening proofs, co-signatures and a simulated settlement ledger.        *)
(*                                                                         *)
(* The group is scaled down to the safe prime p = 47 (q = 23, g = 2); all  *)
(* arithmetic is carried out exactly as in crypto/pedersen.py.  SHA-256    *)
(* and Ed25519 are external primitives: the state digest is modelled as    *)
(* the collision-free list of hashed pieces, a signature as the pair       *)
(* (signing key, signed message), and the Fiat-Shamir hash as a fixed      *)
(* mixing function of its inputs.                                          *)
(***************************************************************************)
EXTENDS Integers, Sequences, FiniteSets, TLC

\* ------------------------------------------------------------------ bounds
MaxDeposit == 1
MaxSeq == 2
MaxAmount == 2
MaxRand == 1
MaxNonce == 1
MaxKeys == 1
MaxMessage == 24
MaxScalar == 24

\* ------------------------------------------------- commitment parameters
\* default_parameters: p is a safe prime, q = (p - 1) / 2 is prime, g = 2
\* generates the subgroup of order q and h = g^x for a scalar x derived by
\* hashing. The source's p has 768 bits; the model keeps the structure in the
\* group of the safe prime 47, whose subgroup of order 23 is generated by 2.
p == 47
q == (p - 1) \div 2
g == 2
HGeneratorScalar == 8

RECURSIVE pow(_, _, _)
pow(base, exponent, modulus) ==
    IF exponent = 0 THEN 1 % modulus
    ELSE (base * pow(base, exponent - 1, modulus)) % modulus

h == pow(g, HGeneratorScalar, p)

\* outcomes of random_scalar: a scalar of [1, q-1]
RandomScalars == 1..MaxRand
\* outcomes of random_scalar for the proof nonces w_m, w_r
NonceScalars == 1..MaxNonce

\* ------------------------------------------------------------- identifiers
ParticipantIds == {"alice", "bob"}
Outsider == "carol"
CallerIds == ParticipantIds \cup {Outsider}
KeyOrder == <<"alice", "bob", "carol">>
channel_id == "c1"
OtherChannelId == "c2"

EmptyDict == [x \in {} |-> 0]

DictSet(d, k, v) == [x \in (DOMAIN d) \cup {k} |-> IF x = k THEN v ELSE d[x]]

DictDel(d, k) == [x \in (DOMAIN d) \ {k} |-> d[x]]

\* sorted(d.keys())
SortedKeys(d) == SelectSeq(KeyOrder, LAMBDA k : k \in DOMAIN d)

StrNum(s) ==
    CASE s = "alice" -> 0
      [] s = "bob" -> 1
      [] s = "carol" -> 2
      [] s = "c1" -> 0
      [] s = "c2" -> 1
      [] OTHER -> 3

\* ------------------------------------------------------- hex serialization
\* A hex string is a sequence of characters: 0..15 stand for '0'..'9',
\* 'a'..'f'; 26..31 stand for the upper-case letters 'A'..'F'.
RECURSIVE to_hex(_)
to_hex(n) == IF n < 16 THEN <<n>> ELSE to_hex(n \div 16) \o <<n % 16>>

HexDigitValue(c) == IF c >= 16 THEN c - 16 ELSE c

RECURSIVE from_hex(_)
from_hex(s) ==
    IF Len(s) = 0 THEN 0
    ELSE 16 * from_hex(SubSeq(s, 1, Len(s) - 1)) + HexDigitValue(s[Len(s)])

serialize_commitment(commitment) == to_hex(commitment)

serialize_opening(opening) == to_hex(opening)

deserialize_opening(hex_value) == from_hex(hex_value)

serialize_proof(proof) ==
    [t |-> to_hex(proof.t),
     response_m |-> to_hex(proof.response_m),
     response_r |-> to_hex(proof.response_r)]

deserialize_proof(data) ==
    [t |-> from_hex(data.t),
     response_m |-> from_hex(data.response_m),
     response_r |-> from_hex(data.response_r)]

\* ------------------------------------------------------ commitment scheme
commit(message, randomness) ==
    (pow(g, message % q, p) * pow(h, randomness, p)) % p

\* a verify that recomputes the commitment from the opening alone
verify_OpeningOnly(commitment, message, opening) ==
    (commitment % p) = pow(h, opening, p) % p

verify(commitment, message, opening) ==
    (commitment % p) = (pow(g, message % q, p) * pow(h, opening, p)) % p

\* an aggregation that adds the commitment values instead of multiplying them
RECURSIVE add_commitments_Sum(_)
add_commitments_Sum(commitments) ==
    IF Len(commitments) = 0 THEN 1
    ELSE (add_commitments_Sum(SubSeq(commitments, 1, Len(commitments) - 1))
            + commitments[Len(commitments)]) % p

\* add_commitments: acc = 1; acc = (acc * value) % p for each commitment
RECURSIVE add_commitments(_)
add_commitments(commitments) ==
    IF Len(commitments) = 0 THEN 1
    ELSE (add_commitments(SubSeq(commitments, 1, Len(commitments) - 1))
            * commitments[Len(commitments)]) % p

\* add_messages: total = 0; total = (total + message) % q for each message
RECURSIVE add_messages(_)
add_messages(messages) ==
    IF Len(messages) = 0 THEN 0
    ELSE (add_messages(SubSeq(messages, 1, Len(messages) - 1))
            + messages[Len(messages)]) % q

\* add_openings: the same sum over the openings' randomness
RECURSIVE add_openings(_)
add_openings(openings) ==
    IF Len(openings) = 0 THEN 0
    ELSE (add_openings(SubSeq(openings, 1, Len(openings) - 1))
            + openings[Len(openings)]) % q

proof_context(cid, sequence, participant_id) ==
    <<cid, sequence, participant_id, "opening-proof">>

\* SHA-256 of (domain separator, context, commitment, t) read as an integer:
\* the contexts of alice and bob at the sequences and channel ids in use get
\* different values modulo q, none of them 0, as digests of 256 bits do below
\* the source's q
ProofHash(commitment, t_value, context) ==
    1 + ((StrNum(context[3]) + 2 * context[2] + 10 * StrNum(context[1])
            + 3 * (commitment % p) + 5 * (t_value % p)) % (q - 1))

compute_challenge(commitment, t_value, context) ==
    LET challenge == ProofHash(commitment, t_value, context) % q
    IN  IF challenge = 0 THEN 1 ELSE challenge

prove_opening(message, opening, commitment, context, w_m, w_r) ==
    LET t_value == (pow(g, w_m, p) * pow(h, w_r, p)) % p
        challenge == compute_challenge(commitment, t_value, context)
        m == message % q
    IN  [t |-> t_value,
         response_m |-> (w_m + challenge * m) % q,
         response_r |-> (w_r + challenge * opening) % q]

verify_opening_proof(commitment, proof, context) ==
    LET challenge == compute_challenge(commitment, proof.t, context)
        left == (pow(g, proof.response_m, p) * pow(h, proof.response_r, p)) % p
        right == (proof.t * pow(commitment % p, challenge, p)) % p
    IN  left = right

\* ---------------------------------------------------------------- signing
\* Ed25519 is deterministic and unforgeable: a signature is determined by
\* the signing key and the message, and verifies for exactly that pair.
SigningKey(owner, id) == [owner |-> owner, id |-> id]

verify_key(signing_key) == [verifies |-> signing_key]

Sign(signing_key, message) == [signer |-> signing_key, message |-> message]

VerifyKeyVerify(vk, message, signature) ==
    signature.signer = vk.verifies /\ signature.message = message

\* Signature.to_hex gives lower-case hex; bytes.fromhex ignores the case.
SignatureToHex(signature) == [bytes |-> signature, upper |-> FALSE]

SignatureFromHex(hex_value) == hex_value.bytes

compute_state_digest(cid, sequence, commitments) ==
    <<cid, sequence>> \o
    [i \in 1..Len(SortedKeys(commitments)) |->
        serialize_commitment(commitments[SortedKeys(commitments)[i]])]


\* ---------------------------------------------------------- channel state
VARIABLES opened, participants, state, history, deposits, records, result, calls

vars == <<opened, participants, state, history, deposits, records, result, calls>>

ChannelState(sequence, balances, commitments, openings, proofs, signatures) ==
    [sequence |-> sequence, balances |-> balances, commitments |-> commitments,
     openings |-> openings, proofs |-> proofs, signatures |-> signatures]

\* ChannelState.clone: a field-by-field copy
clone(st) ==
    ChannelState(st.sequence, st.balances, st.commitments, st.openings,
                 st.proofs, st.signatures)

NoState == ChannelState(0, EmptyDict, EmptyDict, EmptyDict, EmptyDict, EmptyDict)

\* the random draws of one recommitment: r for commit, w_m and w_r for the proof
Draws == [ParticipantIds -> [r : RandomScalars, w_m : NonceScalars, w_r : NonceScalars]]

NewCommitment(balances, draws, pid) == commit(balances[pid], draws[pid].r)

NewProof(cid, sequence, balances, draws, pid) ==
    prove_opening(balances[pid], draws[pid].r, NewCommitment(balances, draws, pid),
                  proof_context(cid, sequence, pid), draws[pid].w_m, draws[pid].w_r)

\* the self-check of a freshly produced proof
SelfCheck(cid, sequence, balances, draws, pid) ==
    verify_opening_proof(NewCommitment(balances, draws, pid),
                         NewProof(cid, sequence, balances, draws, pid),
                         proof_context(cid, sequence, pid))

\* a recommitment that leaves the stored signatures in place
set_balances_KeepSignatures(st, balances, draws) ==
    ChannelState(st.sequence,
                 balances,
                 [pid \in ParticipantIds |-> NewCommitment(balances, draws, pid)],
                 [pid \in ParticipantIds |-> draws[pid].r],
                 [pid \in ParticipantIds |->
                     NewProof(channel_id, st.sequence, balances, draws, pid)],
                 st.signatures)

\* Channel._set_balances on a state whose sequence is already incremented
set_balances(st, balances, draws) ==
    ChannelState(st.sequence,
                 balances,
                 [pid \in ParticipantIds |-> NewCommitment(balances, draws, pid)],
                 [pid \in ParticipantIds |-> draws[pid].r],
                 [pid \in ParticipantIds |->
                     NewProof(channel_id, st.sequence, balances, draws, pid)],
                 EmptyDict)

\* Channel._set_balances leaving through ChannelError at participant `failed`:
\* balances and the commitments handled so far are replaced, the rest is not
set_balances_aborted(st, balances, draws, failed) ==
    LET done == IF failed = "alice" THEN {"alice"} ELSE ParticipantIds
    IN  ChannelState(st.sequence,
                     balances,
                     [pid \in ParticipantIds |->
                         IF pid \in done THEN NewCommitment(balances, draws, pid)
                         ELSE st.commitments[pid]],
                     [pid \in ParticipantIds |->
                         IF pid \in done THEN draws[pid].r ELSE st.openings[pid]],
                     st.proofs,
                     st.signatures)

other(participant_id) == IF participant_id = "alice" THEN "bob" ELSE "alice"

\* a transfer that debits the payer and forgets to credit the payee
Transfer_NoCredit(balances, payer, amount) ==
    [pid \in ParticipantIds |->
        IF pid = payer THEN balances[pid] - amount ELSE balances[pid]]

\* a transfer that credits the payee and forgets to debit the payer
Transfer_NoDebit(balances, payer, amount) ==
    [pid \in ParticipantIds |->
        IF pid = other(payer) THEN balances[pid] + amount ELSE balances[pid]]

\* the balances after moving `amount` from payer to payee
Transfer(balances, payer, amount) ==
    [pid \in ParticipantIds |->
        IF pid = payer THEN balances[pid] - amount
        ELSE IF pid = other(payer) THEN balances[pid] + amount
        ELSE balances[pid]]

\* what the last call did: the exception class (or "ok"), its message, the
\* value returned, for cooperative_close the payload's sequence field and for
\* a successful apply_payment whether the state it replaced was co-signed
Outcome(op, status, detail, value) ==
    [op |-> op, status |-> status, detail |-> detail, value |-> value, input |-> EmptyDict]

Init ==
    /\ opened = FALSE
    /\ participants = EmptyDict
    /\ state = NoState
    /\ history = <<>>
    /\ deposits = EmptyDict
    /\ records = [cid \in {channel_id, OtherChannelId} |->
                    [registered |-> FALSE, sequence |-> 0, commitments |-> EmptyDict,
                     verify_keys |-> EmptyDict, closed |-> FALSE]]
    /\ result = Outcome("init", "ok", "", EmptyDict)
    /\ calls = EmptyDict

LedgerRecord(sequence, commitments, verify_keys, closed) ==
    [registered |-> TRUE, sequence |-> sequence, commitments |-> commitments,
     verify_keys |-> verify_keys, closed |-> closed]

\* the record register_channel stores for a channel
NewRecord(st, parts) ==
    LedgerRecord(st.sequence, st.commitments,
                 [pid \in DOMAIN parts |-> verify_key(parts[pid])], FALSE)

Deposits(deposit_alice, deposit_bob) ==
    [pid \in ParticipantIds |-> IF pid = "alice" THEN deposit_alice ELSE deposit_bob]

\* a deposit check that refuses only when both deposits are negative
OpenError_BothNegative(deposit_alice, deposit_bob) ==
    IF deposit_alice < 0 /\ deposit_bob < 0 THEN "InvalidAmount" ELSE ""

\* the deposit check of Channel.open
OpenError(deposit_alice, deposit_bob) ==
    IF deposit_alice < 0 \/ deposit_bob < 0 THEN "InvalidAmount" ELSE ""

\* the state of the channel Channel.open returns
OpenState(deposit_alice, deposit_bob, draws) ==
    set_balances(NoState, Deposits(deposit_alice, deposit_bob), draws)

\* Channel.open(deposit_alice, deposit_bob, channel_id = "c1") by a caller that
\* holds no channel yet; the ledger is not told
Open(deposit_alice, deposit_bob, key_id) ==
    /\ ~opened
    /\ IF OpenError(deposit_alice, deposit_bob) # ""
       THEN /\ result' = Outcome("open", OpenError(deposit_alice, deposit_bob),
                                 "Deposits must be non-negative integers", EmptyDict)
            /\ UNCHANGED <<opened, participants, state, history, deposits, records, calls>>
       ELSE \E draws \in Draws :
            IF \E pid \in ParticipantIds :
                  ~SelfCheck(channel_id, 0, Deposits(deposit_alice, deposit_bob), draws, pid)
            THEN /\ result' = Outcome("open", "ChannelError",
                                      "Initial proof generation failed", EmptyDict)
                 /\ UNCHANGED <<opened, participants, state, history, deposits, records, calls>>
            ELSE /\ opened' = TRUE
                 /\ participants' = [pid \in ParticipantIds |-> SigningKey(pid, key_id)]
                 /\ state' = OpenState(deposit_alice, deposit_bob, draws)
                 /\ history' = <<clone(state')>>
                 /\ deposits' = Deposits(deposit_alice, deposit_bob)
                 /\ result' = Outcome("open", "ok", "", EmptyDict)
                 /\ UNCHANGED <<records, calls>>

\* ChannelManager.open_channel with channel_id = "c1": Channel.open, the new
\* channel replaces the one held under the id, then register_channel
open_channel(deposit_alice, deposit_bob, key_id) ==
    IF OpenError(deposit_alice, deposit_bob) # ""
    THEN /\ result' = Outcome("open_channel", OpenError(deposit_alice, deposit_bob),
                              "Deposits must be non-negative integers", EmptyDict)
         /\ UNCHANGED <<opened, participants, state, history, deposits, records, calls>>
    ELSE \E draws \in Draws :
         IF \E pid \in ParticipantIds :
               ~SelfCheck(channel_id, 0, Deposits(deposit_alice, deposit_bob), draws, pid)
         THEN /\ result' = Outcome("open_channel", "ChannelError",
                                   "Initial proof generation failed", EmptyDict)
              /\ UNCHANGED <<opened, participants, state, history, deposits, records, calls>>
         ELSE /\ opened' = TRUE
              /\ participants' = [pid \in ParticipantIds |-> SigningKey(pid, key_id)]
              /\ state' = OpenState(deposit_alice, deposit_bob, draws)
              /\ history' = <<clone(state')>>
              /\ deposits' = Deposits(deposit_alice, deposit_bob)
              /\ records' = [records EXCEPT ![channel_id] = NewRecord(state', participants')]
              /\ result' = Outcome("open_channel", "ok", "", EmptyDict)
              /\ UNCHANGED calls

\* a completeness test that is satisfied by any one signature
is_fully_signed_Any == \E pid \in DOMAIN participants : pid \in DOMAIN state.signatures

\* Channel.is_fully_signed()
is_fully_signed == \A pid \in DOMAIN participants : pid \in DOMAIN state.signatures

\* a balance check that also refuses a payment of the payer's whole balance
PaymentError_WholeBalanceRefused(parts, st, payer, amount) ==
    IF payer \notin DOMAIN parts THEN "InvalidParticipant"
    ELSE IF amount <= 0 THEN "InvalidAmount"
    ELSE IF amount >= st.balances[payer] THEN "InsufficientBalance"
    ELSE ""

\* the error apply_payment raises before it changes anything, "" when none
PaymentError(parts, st, payer, amount) ==
    IF payer \notin DOMAIN parts THEN "InvalidParticipant"
    ELSE IF amount <= 0 THEN "InvalidAmount"
    ELSE IF amount > st.balances[payer] THEN "InsufficientBalance"
    ELSE ""

\* a payment that recommits and reproves before it increments the sequence
PaymentState_ProveBeforeIncrement(st, payer, amount, draws) ==
    [set_balances(st, Transfer(st.balances, payer, amount), draws)
        EXCEPT !.sequence = st.sequence + 1]

\* the channel state after a successful apply_payment
PaymentState(st, payer, amount, draws) ==
    set_balances([st EXCEPT !.sequence = st.sequence + 1],
                 Transfer(st.balances, payer, amount), draws)

\* an apply_payment that increments the sequence before it validates the call
apply_payment_IncrementFirst(payer, amount) ==
    /\ opened
    /\ state.sequence < MaxSeq
    /\ IF PaymentError(participants, state, payer, amount) # ""
       THEN /\ state' = [state EXCEPT !.sequence = state.sequence + 1]
            /\ history' = history
            /\ result' = Outcome("apply_payment",
                                 PaymentError(participants, state, payer, amount), "", EmptyDict)
       ELSE \E draws \in Draws :
            /\ state' = PaymentState(state, payer, amount, draws)
            /\ history' = Append(history, clone(state'))
            /\ result' = [Outcome("apply_payment", "ok", "", EmptyDict)
                             EXCEPT !.input = [fully_signed |-> is_fully_signed]]
    /\ UNCHANGED <<opened, participants, deposits, records, calls>>

\* an apply_payment that overwrites the newest history entry instead of
\* appending to the history
apply_payment_RewritesHistory(payer, amount) ==
    /\ opened
    /\ IF PaymentError(participants, state, payer, amount) # ""
       THEN /\ result' = Outcome("apply_payment",
                                 PaymentError(participants, state, payer, amount), "", EmptyDict)
            /\ UNCHANGED <<state, history>>
       ELSE /\ state.sequence < MaxSeq
            /\ \E draws \in Draws : state' = PaymentState(state, payer, amount, draws)
            /\ history' = [history EXCEPT ![Len(history)] = clone(state')]
            /\ result' = [Outcome("apply_payment", "ok", "", EmptyDict)
                             EXCEPT !.input = [fully_signed |-> is_fully_signed]]
    /\ UNCHANGED <<opened, participants, deposits, records, calls>>

\* Channel.apply_payment(payer, amount)
apply_payment(payer, amount) ==
    /\ opened
    /\ IF PaymentError(participants, state, payer, amount) # ""
       THEN /\ result' = Outcome("apply_payment",
                                 PaymentError(participants, state, payer, amount), "", EmptyDict)
            /\ UNCHANGED <<opened, participants, state, history, deposits, records, calls>>
       ELSE /\ state.sequence < MaxSeq
            /\ \E draws \in Draws :
               LET failing == {pid \in ParticipantIds :
                                 ~SelfCheck(channel_id, state.sequence + 1,
                                            Transfer(state.balances, payer, amount), draws, pid)}
               IN  IF failing # {}
                   THEN /\ state' = set_balances_aborted(
                                        [state EXCEPT !.sequence = state.sequence + 1],
                                        Transfer(state.balances, payer, amount), draws,
                                        IF "alice" \in failing THEN "alice" ELSE "bob")
                        /\ history' = history
                        /\ result' = Outcome("apply_payment", "ChannelError",
                                             "Failed to verify commitment proof", EmptyDict)
                   ELSE /\ state' = PaymentState(state, payer, amount, draws)
                        /\ history' = Append(history, clone(state'))
                        /\ result' = [Outcome("apply_payment", "ok", "", EmptyDict)
                                         EXCEPT !.input = [fully_signed |-> is_fully_signed]]
            /\ UNCHANGED <<opened, participants, deposits, records, calls>>

state_digest == compute_state_digest(channel_id, state.sequence, state.commitments)

\* a verify_signatures that passes over the participants without a stored
\* signature
verify_signatures_SkipsMissing ==
    \A pid \in DOMAIN participants :
        pid \in DOMAIN state.signatures
            => VerifyKeyVerify(verify_key(participants[pid]), state_digest,
                               state.signatures[pid])

\* Channel.verify_signatures(): False at the first participant whose signature
\* is missing (signatures.get gives None) or does not verify, True otherwise
verify_signatures ==
    \A pid \in DOMAIN participants :
        /\ pid \in DOMAIN state.signatures
        /\ VerifyKeyVerify(verify_key(participants[pid]), state_digest,
                           state.signatures[pid])

\* a sign_state that starts a new signature map instead of adding to the
\* stored one
sign_state_DropsOthers(participant_id) ==
    /\ opened
    /\ IF participant_id \notin DOMAIN participants
       THEN /\ result' = Outcome("sign_state", "InvalidParticipant", participant_id, EmptyDict)
            /\ UNCHANGED <<opened, participants, state, history, deposits, records, calls>>
       ELSE /\ state' = [state EXCEPT !.signatures =
                            DictSet(EmptyDict, participant_id,
                                    Sign(participants[participant_id], state_digest))]
            /\ result' = Outcome("sign_state", "ok", "", EmptyDict)
            /\ UNCHANGED <<opened, participants, history, deposits, records, calls>>

\* a sign_state on a channel whose newest history entry is the live state
\* object itself instead of a clone: the signature shows in both
sign_state_AliasedHistory(participant_id) ==
    /\ opened
    /\ IF participant_id \notin DOMAIN participants
       THEN /\ result' = Outcome("sign_state", "InvalidParticipant", participant_id, EmptyDict)
            /\ UNCHANGED <<opened, participants, state, history, deposits, records, calls>>
       ELSE /\ state' = [state EXCEPT !.signatures =
                            DictSet(state.signatures, participant_id,
                                    Sign(participants[participant_id], state_digest))]
            /\ history' = [history EXCEPT ![Len(history)] = state']
            /\ result' = Outcome("sign_state", "ok", "", EmptyDict)
            /\ UNCHANGED <<opened, participants, deposits, records, calls>>

\* Channel.sign_state(participant_id)
sign_state(participant_id) ==
    /\ opened
    /\ IF participant_id \notin DOMAIN participants
       THEN /\ result' = Outcome("sign_state", "InvalidParticipant", participant_id, EmptyDict)
            /\ UNCHANGED <<opened, participants, state, history, deposits, records, calls>>
       ELSE /\ state' = [state EXCEPT !.signatures =
                            DictSet(state.signatures, participant_id,
                                    Sign(participants[participant_id], state_digest))]
            /\ result' = Outcome("sign_state", "ok", "", EmptyDict)
            /\ UNCHANGED <<opened, participants, history, deposits, records, calls>>

\* ------------------------------------------------------ settlement ledger

\* SimulatedLedger.register_channel(channel)
register_channel ==
    /\ opened
    /\ records' = [records EXCEPT ![channel_id] = NewRecord(state, participants)]
    /\ result' = Outcome("register_channel", "ok", "", EmptyDict)
    /\ UNCHANGED <<opened, participants, state, history, deposits, calls>>

\* the guard of SimulatedLedger.update_state
SequenceRegressed(channel_sequence, record_sequence) == channel_sequence < record_sequence

\* an update_state that stores the channel's commitments before it compares
\* the sequences
update_state_WriteFirst ==
    /\ opened
    /\ IF ~records[channel_id].registered
       THEN /\ result' = Outcome("update_state", "UnknownChannel", channel_id, EmptyDict)
            /\ UNCHANGED records
       ELSE IF SequenceRegressed(state.sequence, records[channel_id].sequence)
       THEN /\ result' = Outcome("update_state", "InvalidSettlement",
                                 "Channel sequence regressed; refusing to update", EmptyDict)
            /\ records' = [records EXCEPT ![channel_id].commitments = state.commitments]
       ELSE /\ records' = [records EXCEPT ![channel_id].sequence = state.sequence,
                                          ![channel_id].commitments = state.commitments]
            /\ result' = Outcome("update_state", "ok", "", EmptyDict)
    /\ UNCHANGED <<opened, participants, state, history, deposits, calls>>

\* an update_state that stores a record for a channel the ledger does not know
update_state_Registers ==
    /\ opened
    /\ IF ~records[channel_id].registered
       THEN /\ records' = [records EXCEPT ![channel_id] = NewRecord(state, participants)]
            /\ result' = Outcome("update_state", "ok", "", EmptyDict)
       ELSE IF SequenceRegressed(state.sequence, records[channel_id].sequence)
       THEN /\ result' = Outcome("update_state", "InvalidSettlement",
                                 "Channel sequence regressed; refusing to update", EmptyDict)
            /\ UNCHANGED records
       ELSE /\ records' = [records EXCEPT ![channel_id].sequence = state.sequence,
                                          ![channel_id].commitments = state.commitments]
            /\ result' = Outcome("update_state", "ok", "", EmptyDict)
    /\ UNCHANGED <<opened, participants, state, history, deposits, calls>>

\* SimulatedLedger.update_state(channel)
update_state ==
    /\ opened
    /\ IF ~records[channel_id].registered
       THEN /\ result' = Outcome("update_state", "UnknownChannel", channel_id, EmptyDict)
            /\ UNCHANGED records
       ELSE IF SequenceRegressed(state.sequence, records[channel_id].sequence)
       THEN /\ result' = Outcome("update_state", "InvalidSettlement",
                                 "Channel sequence regressed; refusing to update", EmptyDict)
            /\ UNCHANGED records
       ELSE /\ records' = [records EXCEPT ![channel_id].sequence = state.sequence,
                                          ![channel_id].commitments = state.commitments]
            /\ result' = Outcome("update_state", "ok", "", EmptyDict)
    /\ UNCHANGED <<opened, participants, state, history, deposits, calls>>

\* Channel.closing_payload, taken on the channel state st; `absent` lists the
\* keys a submitted payload lacks (none in an exported payload)
closing_payload(st) ==
    [absent |-> {},
     channel_id |-> channel_id,
     sequence |-> st.sequence,
     balances |-> st.balances,
     commitments |-> [pid \in DOMAIN st.commitments |-> serialize_commitment(st.commitments[pid])],
     openings |-> [pid \in DOMAIN st.openings |-> serialize_opening(st.openings[pid])],
     proofs |-> [pid \in DOMAIN st.proofs |-> serialize_proof(st.proofs[pid])],
     signatures |-> [pid \in DOMAIN st.signatures |-> SignatureToHex(st.signatures[pid])]]

\* Channel.snapshot, taken on the channel state st
snapshot(st) ==
    [channel_id |-> channel_id,
     sequence |-> st.sequence,
     commitments |-> [pid \in DOMAIN st.commitments |-> serialize_commitment(st.commitments[pid])],
     proofs |-> [pid \in DOMAIN st.proofs |-> serialize_proof(st.proofs[pid])],
     signatures |-> [pid \in DOMAIN st.signatures |-> SignatureToHex(st.signatures[pid])]]

\* a history view that exports every past state the way a close payload is
history_snapshots_AsPayloads(hist) ==
    [i \in 1..Len(hist) |-> closing_payload(hist[i])]

\* Channel.history_snapshots, taken on the history hist
history_snapshots(hist) ==
    [i \in 1..Len(hist) |->
        [sequence |-> hist[i].sequence,
         commitments |-> [pid \in DOMAIN hist[i].commitments |->
                             serialize_commitment(hist[i].commitments[pid])],
         proofs |-> [pid \in DOMAIN hist[i].proofs |-> serialize_proof(hist[i].proofs[pid])],
         signatures |-> [pid \in DOMAIN hist[i].signatures |->
                            SignatureToHex(hist[i].signatures[pid])]]]

\* ChannelManager.state_response for a channel with state st and participants parts
state_response(st, parts) ==
    [channel_id |-> channel_id,
     sequence |-> st.sequence,
     commitments |-> [pid \in DOMAIN st.commitments |-> serialize_commitment(st.commitments[pid])],
     proofs |-> [pid \in DOMAIN st.proofs |-> serialize_proof(st.proofs[pid])],
     signatures |-> [pid \in DOMAIN st.signatures |-> SignatureToHex(st.signatures[pid])],
     verify_keys |-> [pid \in DOMAIN parts |-> verify_key(parts[pid])]]

\* ChannelManager.history_response
history_response(hist) ==
    [channel_id |-> channel_id, history |-> history_snapshots(hist)]

\* the per-participant checks with the signature verification left out
ParticipantCheck_NoSignature(record, payload, pid) ==
    LET commitment == record.commitments[pid]
        context == proof_context(payload.channel_id, record.sequence, pid)
    IN  IF pid \notin DOMAIN payload.signatures
        THEN "Missing signature for participant"
        ELSE IF pid \notin DOMAIN payload.openings \/ pid \notin DOMAIN payload.balances
        THEN "Missing opening or balance for participant"
        ELSE IF ~verify(commitment, payload.balances[pid],
                        deserialize_opening(payload.openings[pid]))
        THEN "Opening does not match commitment for participant"
        ELSE IF pid \notin DOMAIN payload.proofs
        THEN "Missing proof for participant"
        ELSE IF ~verify_opening_proof(commitment, deserialize_proof(payload.proofs[pid]), context)
        THEN "Invalid commitment proof for participant"
        ELSE ""

\* the signature, opening and proof checks of cooperative_close for one
\* participant: the message of the first check that fails, "" when all pass
ParticipantCheck(record, payload, pid) ==
    LET digest == compute_state_digest(payload.channel_id, record.sequence, record.commitments)
        commitment == record.commitments[pid]
        context == proof_context(payload.channel_id, record.sequence, pid)
    IN  IF pid \notin DOMAIN payload.signatures
        THEN "Missing signature for participant"
        ELSE IF ~VerifyKeyVerify(record.verify_keys[pid], digest,
                                 SignatureFromHex(payload.signatures[pid]))
        THEN "Invalid signature for participant"
        ELSE IF pid \notin DOMAIN payload.openings \/ pid \notin DOMAIN payload.balances
        THEN "Missing opening or balance for participant"
        ELSE IF ~verify(commitment, payload.balances[pid],
                        deserialize_opening(payload.openings[pid]))
        THEN "Opening does not match commitment for participant"
        ELSE IF pid \notin DOMAIN payload.proofs
        THEN "Missing proof for participant"
        ELSE IF ~verify_opening_proof(commitment, deserialize_proof(payload.proofs[pid]), context)
        THEN "Invalid commitment proof for participant"
        ELSE ""

\* the first participant, in the order of record.verify_keys, whose checks fail
FirstFailing(record, payload) ==
    LET order == SortedKeys(record.verify_keys)
        bad == {i \in 1..Len(order) : ParticipantCheck(record, payload, order[i]) # ""}
    IN  IF bad = {} THEN "" ELSE order[CHOOSE i \in bad : \A j \in bad : i <= j]

\* a ledger that never looks at record.closed
AlreadySettled_Never(record) == FALSE

\* record.closed
AlreadySettled(record) == record.closed

\* a sequence check that refuses only payloads older than the record (>=)
SequenceMismatch_OnlyLower(record, payload) ==
    "sequence" \in payload.absent \/ payload.sequence < record.sequence

\* a sequence check that refuses only payloads newer than the record (<=)
SequenceMismatch_OnlyHigher(record, payload) ==
    "sequence" \in payload.absent \/ payload.sequence > record.sequence

\* not isinstance(sequence, int) or sequence != record.sequence
SequenceMismatch(record, payload) ==
    "sequence" \in payload.absent \/ payload.sequence # record.sequence

\* commitments_hex.get(pid) != serialize_commitment(commitment) for some pid
CommitmentMismatch(record, payload) ==
    \E pid \in DOMAIN record.commitments :
        \/ pid \notin DOMAIN payload.commitments
        \/ payload.commitments[pid] # serialize_commitment(record.commitments[pid])

\* the value cooperative_close returns
Settlement(record, payload) ==
    [channel_id |-> payload.channel_id,
     sequence |-> record.sequence,
     settled_balances |-> payload.balances,
     verified |-> TRUE]

\* SimulatedLedger.cooperative_close(payload): the error raised, or the result
\* returned, against the ledger's records recs
CloseOutcome(recs, payload) ==
    LET record == recs[payload.channel_id]
        failed == FirstFailing(record, payload)
        Error(status, detail) == [status |-> status, detail |-> detail, value |-> EmptyDict]
    IN  IF "channel_id" \in payload.absent
        THEN Error("InvalidSettlement", "Missing channel_id in close payload")
        ELSE IF ~record.registered
        THEN Error("UnknownChannel", payload.channel_id)
        ELSE IF AlreadySettled(record)
        THEN Error("InvalidSettlement", "Channel already settled")
        ELSE IF SequenceMismatch(record, payload)
        THEN Error("InvalidSettlement", "Sequence mismatch during settlement")
        ELSE IF {"commitments", "openings", "balances"} \cap payload.absent # {}
        THEN Error("InvalidSettlement", "Malformed close payload")
        ELSE IF "signatures" \in payload.absent
        THEN Error("InvalidSettlement", "Missing signatures in close payload")
        ELSE IF "proofs" \in payload.absent
        THEN Error("InvalidSettlement", "Missing proofs in close payload")
        ELSE IF CommitmentMismatch(record, payload)
        THEN Error("InvalidSettlement", "Commitment mismatch for participant")
        ELSE IF failed # ""
        THEN Error("InvalidSettlement", ParticipantCheck(record, payload, failed))
        ELSE [status |-> "ok", detail |-> "", value |-> Settlement(record, payload)]

\* a close that validates the payload and forgets to mark the record
MarkClosed_Forgotten(record) == record

\* record.closed = True, reached only when no check raised
MarkClosed(record) == [record EXCEPT !.closed = TRUE]

\* the ledger's records after cooperative_close(payload)
CloseRecords(recs, payload) ==
    IF CloseOutcome(recs, payload).status = "ok"
    THEN [recs EXCEPT ![payload.channel_id] = MarkClosed(@)]
    ELSE recs

\* ------------------------------------------------- submitted close payloads
\* One change made to an exported payload before it is submitted.
Change(kind, pid, how, n) == [kind |-> kind, pid |-> pid, how |-> how, n |-> n]

NoChange == Change("none", "", "", 0)

SequenceChanges ==
    {Change("sequence", "", "set", n) : n \in 0..(MaxSeq + 1)}
        \cup {Change("sequence", "", "absent", 0)}

Changes ==
    {NoChange}
    \cup {Change("channel_id", "", how, 0) : how \in {"other", "absent"}}
    \cup SequenceChanges
    \cup {Change("commitment", pid, how, 0) :
            pid \in ParticipantIds, how \in {"plus1", "padded", "upper", "absent"}}
    \cup {Change("signature", pid, how, 0) :
            pid \in ParticipantIds,
            how \in {"garbage", "swapped", "upper", "absent", "other_commitments"}}
    \cup {Change("signature", pid, "stale", n) : pid \in ParticipantIds, n \in 1..MaxSeq}
    \cup {Change("opening", pid, how, 0) :
            pid \in ParticipantIds, how \in {"plus1", "plusq", "padded", "upper", "absent"}}
    \cup {Change("balance", pid, how, 0) :
            pid \in ParticipantIds, how \in {"plus1", "plusq", "absent"}}
    \cup {Change("balance", Outsider, "extra", 0)}
    \cup {Change("proof", pid, how, 0) :
            pid \in ParticipantIds,
            how \in {"t_plus1", "t_plusp", "m_plus1", "m_plusq", "r_plus1", "r_plusq", "absent"}}
    \cup {Change("field", "", how, 0) :
            how \in {"commitments", "openings", "balances", "signatures", "proofs"}}

\* the same hex digits with the letters in upper case / with a leading zero
Upper(s) == [i \in 1..Len(s) |-> IF s[i] >= 10 /\ s[i] < 16 THEN s[i] + 16 ELSE s[i]]

Padded(s) == <<0>> \o s

HexChanged(s, how, plus, modulus) ==
    CASE how = "plus1" -> to_hex((from_hex(s) + 1) % modulus)
      [] how = "plusq" -> to_hex(from_hex(s) + plus)
      [] how = "padded" -> Padded(s)
      [] how = "upper" -> Upper(s)
      [] OTHER -> s

GarbageSignature == Sign(SigningKey("nobody", 0), <<"", 0>>)

\* the digest of the state recorded at history[n]; history[Len(history)] is
\* the live state, the entries before it are the states it replaced
HistoryDigest(n) ==
    compute_state_digest(channel_id, history[n].sequence, history[n].commitments)

SignatureChanged(payload, pid, how, n) ==
    LET sigs == payload.signatures
    IN  CASE how = "absent" -> DictDel(sigs, pid)
          [] how = "garbage" -> DictSet(sigs, pid, SignatureToHex(GarbageSignature))
          [] how = "swapped" /\ other(pid) \in DOMAIN sigs -> DictSet(sigs, pid, sigs[other(pid)])
          [] how = "upper" /\ pid \in DOMAIN sigs ->
                DictSet(sigs, pid, [sigs[pid] EXCEPT !.upper = TRUE])
          [] how = "stale" /\ n < Len(history) ->
                DictSet(sigs, pid, SignatureToHex(Sign(participants[pid], HistoryDigest(n))))
          [] how = "other_commitments" ->
                DictSet(sigs, pid, SignatureToHex(Sign(participants[pid],
                    compute_state_digest(channel_id, payload.sequence,
                        [x \in DOMAIN state.commitments |->
                            (state.commitments[x] + 1) % p]))))
          [] OTHER -> sigs

ProofChanged(proof, how) ==
    CASE how = "t_plus1" -> [proof EXCEPT !.t = to_hex((from_hex(proof.t) + 1) % p)]
      [] how = "t_plusp" -> [proof EXCEPT !.t = to_hex(from_hex(proof.t) + p)]
      [] how = "m_plus1" -> [proof EXCEPT !.response_m = to_hex((from_hex(proof.response_m) + 1) % q)]
      [] how = "m_plusq" -> [proof EXCEPT !.response_m = to_hex(from_hex(proof.response_m) + q)]
      [] how = "r_plus1" -> [proof EXCEPT !.response_r = to_hex((from_hex(proof.response_r) + 1) % q)]
      [] how = "r_plusq" -> [proof EXCEPT !.response_r = to_hex(from_hex(proof.response_r) + q)]
      [] OTHER -> proof

\* the payload after the change c
Changed(payload, c) ==
    CASE c.kind = "channel_id" /\ c.how = "other" -> [payload EXCEPT !.channel_id = OtherChannelId]
      [] c.kind = "channel_id" /\ c.how = "absent" ->
            [payload EXCEPT !.absent = @ \cup {"channel_id"}]
      [] c.kind = "sequence" /\ c.how = "set" -> [payload EXCEPT !.sequence = c.n]
      [] c.kind = "sequence" /\ c.how = "absent" ->
            [payload EXCEPT !.absent = @ \cup {"sequence"}]
      [] c.kind = "field" -> [payload EXCEPT !.absent = @ \cup {c.how}]
      [] c.kind = "commitment" /\ c.how = "absent" ->
            [payload EXCEPT !.commitments = DictDel(@, c.pid)]
      [] c.kind = "commitment" /\ c.how # "absent" ->
            [payload EXCEPT !.commitments[c.pid] = HexChanged(@, c.how, p, p)]
      [] c.kind = "opening" /\ c.how = "absent" ->
            [payload EXCEPT !.openings = DictDel(@, c.pid)]
      [] c.kind = "opening" /\ c.how # "absent" ->
            [payload EXCEPT !.openings[c.pid] = HexChanged(@, c.how, q, q)]
      [] c.kind = "balance" /\ c.how = "absent" ->
            [payload EXCEPT !.balances = DictDel(@, c.pid)]
      [] c.kind = "balance" /\ c.how = "plus1" ->
            [payload EXCEPT !.balances[c.pid] = @ + 1]
      [] c.kind = "balance" /\ c.how = "plusq" ->
            [payload EXCEPT !.balances[c.pid] = @ + q]
      [] c.kind = "balance" /\ c.how = "extra" ->
            [payload EXCEPT !.balances = DictSet(@, c.pid, q)]
      [] c.kind = "signature" ->
            [payload EXCEPT !.signatures = SignatureChanged(payload, c.pid, c.how, c.n)]
      [] c.kind = "proof" /\ c.how = "absent" ->
            [payload EXCEPT !.proofs = DictDel(@, c.pid)]
      [] c.kind = "proof" /\ c.how # "absent" ->
            [payload EXCEPT !.proofs[c.pid] = ProofChanged(@, c.how)]
      [] OTHER -> payload

\* closing_payload as exported while history[n] was the live state and the
\* participants in signers had signed it
ExportedPayload(n, signers) ==
    closing_payload([history[n] EXCEPT !.signatures =
        [pid \in signers |-> Sign(participants[pid], HistoryDigest(n))]])

Submission(base, stale, change) == [base |-> base, stale |-> stale, change |-> change]

\* what a caller can submit: the live closing payload, changed in at most one
\* place; any payload exported earlier; a co-signed earlier payload with its
\* sequence number rewritten
Submissions ==
    {Submission(closing_payload(state), FALSE, c) : c \in Changes}
    \cup {Submission(ExportedPayload(n, signers), TRUE, NoChange) :
            n \in 1..(Len(history) - 1), signers \in SUBSET ParticipantIds}
    \cup {Submission(ExportedPayload(n, ParticipantIds), TRUE, c) :
            n \in 1..(Len(history) - 1), c \in SequenceChanges}

\* SimulatedLedger.cooperative_close(payload)
cooperative_close(submission) ==
    LET payload == Changed(submission.base, submission.change)
        outcome == CloseOutcome(records, payload)
    IN  /\ opened
        /\ submission.change = NoChange \/ payload # submission.base
        /\ records' = CloseRecords(records, payload)
        /\ result' = [Outcome("cooperative_close", outcome.status, outcome.detail, outcome.value)
                          EXCEPT !.input = [sequence |-> IF "sequence" \in payload.absent
                                                         THEN -1 ELSE payload.sequence]]
        /\ UNCHANGED <<opened, participants, state, history, deposits, calls>>

\* Channel.open(deposit_alice, deposit_bob, channel_id = "c1") by a caller that
\* already holds a channel of that id: the new channel object takes its place
\* and the ledger, which keeps the record of the old one, is not told
Reopen(deposit_alice, deposit_bob, key_id) ==
    /\ opened
    /\ OpenError(deposit_alice, deposit_bob) = ""
    /\ \E draws \in Draws :
          /\ \A pid \in ParticipantIds :
                SelfCheck(channel_id, 0, Deposits(deposit_alice, deposit_bob), draws, pid)
          /\ participants' = [pid \in ParticipantIds |-> SigningKey(pid, key_id)]
          /\ state' = OpenState(deposit_alice, deposit_bob, draws)
          /\ history' = <<clone(state')>>
          /\ deposits' = Deposits(deposit_alice, deposit_bob)
          /\ result' = Outcome("open", "ok", "", EmptyDict)
          /\ UNCHANGED <<opened, records, calls>>

\* Channel.open(deposit_alice, deposit_bob, channel_id = "c1", signing_keys =
\* {pid: key for pid in owners}): the participants are the keys of the
\* caller's dictionary, the balances are those of alice and bob
OpenSupplied(deposit_alice, deposit_bob, owners, key_id) ==
    /\ ~opened
    /\ IF OpenError(deposit_alice, deposit_bob) # ""
       THEN /\ result' = Outcome("open", OpenError(deposit_alice, deposit_bob),
                                 "Deposits must be non-negative integers", EmptyDict)
            /\ UNCHANGED <<opened, participants, state, history, deposits, records, calls>>
       ELSE \E draws \in Draws :
            /\ \A pid \in ParticipantIds :
                  SelfCheck(channel_id, 0, Deposits(deposit_alice, deposit_bob), draws, pid)
            /\ opened' = TRUE
            /\ participants' = [pid \in owners |-> SigningKey(pid, key_id)]
            /\ state' = OpenState(deposit_alice, deposit_bob, draws)
            /\ history' = <<clone(state')>>
            /\ deposits' = Deposits(deposit_alice, deposit_bob)
            /\ result' = Outcome("open", "ok", "", EmptyDict)
            /\ UNCHANGED <<records, calls>>

\* ------------------------------------------------------ interleaved calls
\* Calls on one channel object made by threads that hold no lock.  calls[t]
\* is the call thread t is inside: its position and its local variables.
Threads == {"t1", "t2"}

InFlight(t, pc) == t \in DOMAIN calls /\ calls[t].pc = pc

PaymentCall(payer, amount, pc, status) ==
    [op |-> "apply_payment", payer |-> payer, amount |-> amount, pc |-> pc,
     status |-> status, seen |-> EmptyDict, balances |-> EmptyDict]

\* apply_payment, the three checks: the last reads the payer's balance
pay_check(t, payer, amount) ==
    /\ opened
    /\ t \notin DOMAIN calls
    /\ calls' = DictSet(calls, t,
                    IF PaymentError(participants, state, payer, amount) # ""
                    THEN PaymentCall(payer, amount, "done",
                                     PaymentError(participants, state, payer, amount))
                    ELSE PaymentCall(payer, amount, "checked", ""))
    /\ UNCHANGED <<opened, participants, state, history, deposits, records, result>>

\* apply_payment, balances = self.state.balances.copy() and the two updates of
\* the copy
pay_copy(t) ==
    /\ InFlight(t, "checked")
    /\ calls' = [calls EXCEPT ![t].pc = "copied",
                              ![t].seen = state.balances,
                              ![t].balances = Transfer(state.balances, calls[t].payer,
                                                       calls[t].amount)]
    /\ UNCHANGED <<opened, participants, state, history, deposits, records, result>>

\* apply_payment, self.state.sequence += 1
pay_increment(t) ==
    /\ InFlight(t, "copied")
    /\ state.sequence < MaxSeq
    /\ state' = [state EXCEPT !.sequence = state.sequence + 1]
    /\ calls' = [calls EXCEPT ![t].pc = "incremented"]
    /\ UNCHANGED <<opened, participants, history, deposits, records, result>>

\* apply_payment, self._set_balances(balances): the contexts are built from the
\* sequence the state holds when the call gets here
pay_set_balances(t) ==
    /\ InFlight(t, "incremented")
    /\ \E draws \in Draws :
          /\ \A pid \in ParticipantIds :
                SelfCheck(channel_id, state.sequence, calls[t].balances, draws, pid)
          /\ state' = set_balances(state, calls[t].balances, draws)
    /\ calls' = [calls EXCEPT ![t].pc = "recommitted"]
    /\ UNCHANGED <<opened, participants, history, deposits, records, result>>

\* apply_payment, self.history.append(self.state.clone()) and the return
pay_append(t) ==
    /\ InFlight(t, "recommitted")
    /\ history' = Append(history, clone(state))
    /\ calls' = [calls EXCEPT ![t].pc = "done", ![t].status = "ok"]
    /\ UNCHANGED <<opened, participants, state, deposits, records, result>>

\* ChannelManager.close and ChannelManager.apply_update, each a call in flight
\* under its own name
ManagerCall(op, pc, status, payload, value) ==
    [op |-> op, pc |-> pc, status |-> status, payload |-> payload, value |-> value]

\* ChannelManager.close, the is_fully_signed guard
close_check ==
    /\ opened
    /\ "close" \notin DOMAIN calls
    /\ calls' = DictSet(calls, "close",
                    IF is_fully_signed
                    THEN ManagerCall("close", "checked", "", EmptyDict, EmptyDict)
                    ELSE ManagerCall("close", "done", "HTTPException", EmptyDict, EmptyDict))
    /\ UNCHANGED <<opened, participants, state, history, deposits, records, result>>

\* ChannelManager.close, payload = channel.closing_payload()
close_export ==
    /\ InFlight("close", "checked")
    /\ calls' = [calls EXCEPT !["close"].pc = "exported",
                              !["close"].payload = closing_payload(state)]
    /\ UNCHANGED <<opened, participants, state, history, deposits, records, result>>

\* ChannelManager.close, self._ledger.cooperative_close(payload)
close_submit ==
    /\ InFlight("close", "exported")
    /\ records' = CloseRecords(records, calls["close"].payload)
    /\ calls' = [calls EXCEPT
                    !["close"].pc = "done",
                    !["close"].status = CloseOutcome(records, calls["close"].payload).status,
                    !["close"].value = CloseOutcome(records, calls["close"].payload).value]
    /\ UNCHANGED <<opened, participants, state, history, deposits, result>>

\* ChannelManager.apply_update, channel.apply_payment(payer, delta)
update_pay(payer, amount) ==
    /\ opened
    /\ "apply_update" \notin DOMAIN calls
    /\ IF PaymentError(participants, state, payer, amount) # ""
       THEN /\ calls' = DictSet(calls, "apply_update",
                            ManagerCall("apply_update", "done",
                                        PaymentError(participants, state, payer, amount),
                                        EmptyDict, EmptyDict))
            /\ UNCHANGED <<state, history>>
       ELSE /\ state.sequence < MaxSeq
            /\ \E draws \in Draws :
                  /\ \A pid \in ParticipantIds :
                        SelfCheck(channel_id, state.sequence + 1,
                                  Transfer(state.balances, payer, amount), draws, pid)
                  /\ state' = PaymentState(state, payer, amount, draws)
            /\ history' = Append(history, clone(state'))
            /\ calls' = DictSet(calls, "apply_update",
                            ManagerCall("apply_update", "paid", "", EmptyDict, EmptyDict))
    /\ UNCHANGED <<opened, participants, deposits, records, result>>

\* an apply_update whose ledger call stores nothing
update_ledger_Forgets ==
    /\ InFlight("apply_update", "paid")
    /\ calls' = [calls EXCEPT !["apply_update"].pc = "done", !["apply_update"].status = "ok"]
    /\ UNCHANGED <<opened, participants, state, history, deposits, records, result>>

\* ChannelManager.apply_update, self._ledger.update_state(channel)
update_ledger ==
    /\ InFlight("apply_update", "paid")
    /\ IF ~records[channel_id].registered
       THEN /\ calls' = [calls EXCEPT !["apply_update"].pc = "done",
                                      !["apply_update"].status = "UnknownChannel"]
            /\ UNCHANGED records
       ELSE IF SequenceRegressed(state.sequence, records[channel_id].sequence)
       THEN /\ calls' = [calls EXCEPT !["apply_update"].pc = "done",
                                      !["apply_update"].status = "InvalidSettlement"]
            /\ UNCHANGED records
       ELSE /\ records' = [records EXCEPT ![channel_id].sequence = state.sequence,
                                          ![channel_id].commitments = state.commitments]
            /\ calls' = [calls EXCEPT !["apply_update"].pc = "done",
                                      !["apply_update"].status = "ok"]
    /\ UNCHANGED <<opened, participants, state, history, deposits, result>>

\* ------------------------------------------------- manager calls, one at a time
\* the error update_state raises for a channel in state st, "" when none
UpdateError(recs, st) ==
    IF ~recs[channel_id].registered THEN "UnknownChannel"
    ELSE IF SequenceRegressed(st.sequence, recs[channel_id].sequence) THEN "InvalidSettlement"
    ELSE ""

\* the ledger's records after update_state for a channel in state st
UpdatedRecords(recs, st) ==
    IF UpdateError(recs, st) # "" THEN recs
    ELSE [recs EXCEPT ![channel_id].sequence = st.sequence,
                      ![channel_id].commitments = st.commitments]

\* an apply_update that applies the payment and does not tell the ledger
apply_update_SkipsLedger(payer, amount) ==
    /\ opened
    /\ IF PaymentError(participants, state, payer, amount) # ""
       THEN /\ result' = Outcome("apply_update",
                                 PaymentError(participants, state, payer, amount), "", EmptyDict)
            /\ UNCHANGED <<state, history, records>>
       ELSE /\ state.sequence < MaxSeq
            /\ \E draws \in Draws : state' = PaymentState(state, payer, amount, draws)
            /\ history' = Append(history, clone(state'))
            /\ records' = records
            /\ result' = Outcome("apply_update", "ok", "", EmptyDict)
    /\ UNCHANGED <<opened, participants, deposits, calls>>

\* ChannelManager.apply_update: channel.apply_payment(payer, delta), then
\* self._ledger.update_state(channel) when the payment raised nothing
apply_update(payer, amount) ==
    /\ opened
    /\ IF PaymentError(participants, state, payer, amount) # ""
       THEN /\ result' = Outcome("apply_update",
                                 PaymentError(participants, state, payer, amount), "", EmptyDict)
            /\ UNCHANGED <<state, history, records>>
       ELSE /\ state.sequence < MaxSeq
            /\ \E draws \in Draws :
               LET failing == {pid \in ParticipantIds :
                                 ~SelfCheck(channel_id, state.sequence + 1,
                                            Transfer(state.balances, payer, amount), draws, pid)}
               IN  IF failing # {}
                   THEN /\ state' = set_balances_aborted(
                                        [state EXCEPT !.sequence = state.sequence + 1],
                                        Transfer(state.balances, payer, amount), draws,
                                        IF "alice" \in failing THEN "alice" ELSE "bob")
                        /\ UNCHANGED <<history, records>>
                        /\ result' = Outcome("apply_update", "ChannelError",
                                             "Failed to verify commitment proof", EmptyDict)
                   ELSE /\ state' = PaymentState(state, payer, amount, draws)
                        /\ history' = Append(history, clone(state'))
                        /\ records' = UpdatedRecords(records, state')
                        /\ result' = Outcome("apply_update",
                                             IF UpdateError(records, state') = "" THEN "ok"
                                             ELSE UpdateError(records, state'), "", EmptyDict)
    /\ UNCHANGED <<opened, participants, deposits, calls>>

\* the signature map after sign_state for every participant
AllSigned(parts, st) ==
    [pid \in DOMAIN parts |->
        Sign(parts[pid], compute_state_digest(channel_id, st.sequence, st.commitments))]

\* ChannelManager.cosign: sign_state for the participant named in the request,
\* for every participant when the request names none
cosign(participant) ==
    /\ opened
    /\ IF participant = "none"
       THEN /\ state' = [state EXCEPT !.signatures = AllSigned(participants, state)]
            /\ result' = Outcome("cosign", "ok", "", EmptyDict)
       ELSE IF participant \notin DOMAIN participants
       THEN /\ result' = Outcome("cosign", "InvalidParticipant", participant, EmptyDict)
            /\ UNCHANGED state
       ELSE /\ state' = [state EXCEPT !.signatures =
                            DictSet(state.signatures, participant,
                                    Sign(participants[participant], state_digest))]
            /\ result' = Outcome("cosign", "ok", "", EmptyDict)
    /\ UNCHANGED <<opened, participants, history, deposits, records, calls>>

\* ChannelManager.close: the is_fully_signed guard, closing_payload, then
\* cooperative_close; a ledger error is answered as an HTTP error
close ==
    /\ opened
    /\ IF ~is_fully_signed
       THEN /\ result' = Outcome("close", "HTTPException",
                                 "Channel must be co-signed before settlement", EmptyDict)
            /\ UNCHANGED records
       ELSE LET outcome == CloseOutcome(records, closing_payload(state))
            IN  /\ records' = CloseRecords(records, closing_payload(state))
                /\ result' = Outcome("close",
                                     IF outcome.status = "ok" THEN "ok" ELSE "HTTPException",
                                     outcome.detail, outcome.value)
    /\ UNCHANGED <<opened, participants, state, history, deposits, calls>>

\* --------------------------------------------------- commitment scheme calls
\* The functions of crypto/pedersen.py called directly.  calls holds the
\* message and the randomness the caller commits with, result the last call
\* and what it returned; none of the functions raises.
MessageInputs == (-1)..MaxMessage

ScalarInputs == 0..MaxScalar

Contexts ==
    {proof_context(cid, sequence, pid) :
        cid \in {channel_id, OtherChannelId}, sequence \in 0..MaxSeq, pid \in ParticipantIds}

InitScheme ==
    /\ opened = FALSE
    /\ participants = EmptyDict
    /\ state = NoState
    /\ history = <<>>
    /\ deposits = EmptyDict
    /\ records = [cid \in {channel_id, OtherChannelId} |->
                    [registered |-> FALSE, sequence |-> 0, commitments |-> EmptyDict,
                     verify_keys |-> EmptyDict, closed |-> FALSE]]
    /\ result = Outcome("init", "ok", "", EmptyDict)
    /\ calls \in [message : MessageInputs, randomness : ScalarInputs]

\* commit(params, message, randomness)
commit_call ==
    /\ result.op = "init"
    /\ result' = Outcome("commit", "ok", "",
                         [commitment |-> commit(calls.message, calls.randomness),
                          opening |-> calls.randomness])
    /\ UNCHANGED <<opened, participants, state, history, deposits, records, calls>>

\* verify(params, commitment, message, opening) on the commitment of the
\* caller's message, or on that value plus `excess`
verify_call(message, excess) ==
    /\ result.op = "init"
    /\ LET commitment == commit(calls.message, calls.randomness) + excess
       IN  result' = Outcome("verify", "ok", "",
                             [commitment |-> commitment,
                              message |-> message,
                              opening |-> calls.randomness,
                              verified |-> verify(commitment, message, calls.randomness)])
    /\ UNCHANGED <<opened, participants, state, history, deposits, records, calls>>

\* add_commitments, add_messages and add_openings on the caller's commitment
\* and a second one
add_call(message, randomness) ==
    /\ result.op = "init"
    /\ result' = Outcome("add_commitments", "ok", "",
                         [commitment |-> add_commitments(
                                             <<commit(calls.message, calls.randomness),
                                               commit(message, randomness)>>),
                          message |-> add_messages(<<calls.message, message>>),
                          opening |-> add_openings(<<calls.randomness, randomness>>)])
    /\ UNCHANGED <<opened, participants, state, history, deposits, records, calls>>

\* prove_opening(params, message, opening, commitment, context = context)
prove_call(context, w_m, w_r) ==
    /\ result.op = "init"
    /\ LET commitment == commit(calls.message, calls.randomness)
       IN  result' = Outcome("prove_opening", "ok", "",
                             [commitment |-> commitment,
                              proof |-> prove_opening(calls.message, calls.randomness,
                                                      commitment, context, w_m, w_r),
                              context |-> context])
    /\ UNCHANGED <<opened, participants, state, history, deposits, records, calls>>

\* the proof just produced with one of its numbers moved out of its range
ProofOutOfRange(value, how) ==
    CASE how = "t_plusp" -> [value EXCEPT !.proof.t = @ + p]
      [] how = "m_plusq" -> [value EXCEPT !.proof.response_m = @ + q]
      [] how = "r_plusq" -> [value EXCEPT !.proof.response_r = @ + q]
      [] how = "commitment_plusp" -> [value EXCEPT !.commitment = @ + p]
      [] OTHER -> value

\* verify_opening_proof(params, commitment, proof, context = context) on the
\* proof just produced: under any context as it is, under its own context with
\* a number out of range
verify_proof_call(context, how) ==
    /\ result.op = "prove_opening"
    /\ how = "none" \/ context = result.value.context
    /\ LET given == ProofOutOfRange(result.value, how)
       IN  result' = Outcome("verify_opening_proof", "ok", "",
                             [commitment |-> given.commitment,
                              proof |-> given.proof,
                              context |-> result.value.context,
                              checked |-> context,
                              how |-> how,
                              verified |-> verify_opening_proof(given.commitment,
                                                                given.proof, context)])
    /\ UNCHANGED <<opened, participants, state, history, deposits, records, calls>>

\* ------------------------------------------------------------ specification
Next ==
    \/ \E deposit_alice, deposit_bob \in (-1)..MaxDeposit, key_id \in 1..MaxKeys :
          Open(deposit_alice, deposit_bob, key_id)
    \/ \E deposit_alice, deposit_bob \in (-1)..MaxDeposit, key_id \in 1..MaxKeys :
          open_channel(deposit_alice, deposit_bob, key_id)
    \/ \E payer \in CallerIds, amount \in (-1)..MaxAmount : apply_payment(payer, amount)
    \/ \E participant_id \in CallerIds : sign_state(participant_id)
    \/ register_channel
    \/ update_state
    \/ \E submission \in Submissions : cooperative_close(submission)

Spec == Init /\ [][Next]_vars

\* The ledger driven by channel objects that come and go: a channel of the same
\* id may be opened again without being registered, so the record the ledger
\* holds can be ahead of the channel it is asked about.
NextLedger ==
    \/ \E deposit_alice, deposit_bob \in (-1)..MaxDeposit, key_id \in 1..MaxKeys :
          Open(deposit_alice, deposit_bob, key_id)
    \/ \E deposit_alice, deposit_bob \in 0..MaxDeposit, key_id \in 1..MaxKeys :
          Reopen(deposit_alice, deposit_bob, key_id)
    \/ \E payer \in ParticipantIds, amount \in 1..MaxAmount : apply_payment(payer, amount)
    \/ \E participant_id \in ParticipantIds : sign_state(participant_id)
    \/ register_channel
    \/ update_state
    \/ \E submission \in Submissions : cooperative_close(submission)

SpecLedger == Init /\ [][NextLedger]_vars

\* Two threads, each making one apply_payment call on the same channel, their
\* statements interleaved in any order.
NextPaymentRace ==
    \/ \E deposit_alice, deposit_bob \in (-1)..MaxDeposit, key_id \in 1..MaxKeys :
          Open(deposit_alice, deposit_bob, key_id)
    \/ \E t \in Threads, payer \in CallerIds, amount \in 0..MaxAmount :
          pay_check(t, payer, amount)
    \/ \E t \in Threads : pay_copy(t)
    \/ \E t \in Threads : pay_increment(t)
    \/ \E t \in Threads : pay_set_balances(t)
    \/ \E t \in Threads : pay_append(t)

SpecPaymentRace == Init /\ [][NextPaymentRace]_vars

\* One ChannelManager.close and one ChannelManager.apply_update on the channel
\* the manager holds, their statements interleaved in any order.
NextManagerRace ==
    \/ \E deposit_alice, deposit_bob \in (-1)..MaxDeposit, key_id \in 1..MaxKeys :
          open_channel(deposit_alice, deposit_bob, key_id)
    \/ \E participant_id \in ParticipantIds : sign_state(participant_id)
    \/ close_check
    \/ close_export
    \/ close_submit
    \/ \E payer \in ParticipantIds, amount \in 0..MaxAmount : update_pay(payer, amount)
    \/ update_ledger

SpecManagerRace == Init /\ [][NextManagerRace]_vars

\* Channels opened with a signing_keys dictionary of the caller's, then signed
\* and registered.
NextSuppliedKeys ==
    \/ \E deposit_alice, deposit_bob \in (-1)..MaxDeposit, owners \in SUBSET CallerIds,
          key_id \in 1..MaxKeys :
          OpenSupplied(deposit_alice, deposit_bob, owners, key_id)
    \/ \E participant_id \in CallerIds : sign_state(participant_id)
    \/ register_channel
    \/ update_state

SpecSuppliedKeys == Init /\ [][NextSuppliedKeys]_vars

\* One call of a commitment-scheme function on a message and a randomness of
\* the caller's, and the verification of a proof just produced.
NextScheme ==
    \/ commit_call
    \/ \E message \in MessageInputs, excess \in {0, p} : verify_call(message, excess)
    \/ \E message \in MessageInputs, randomness \in ScalarInputs :
          add_call(message, randomness)
    \/ \E context \in Contexts, w_m, w_r \in NonceScalars : prove_call(context, w_m, w_r)
    \/ \E context \in Contexts,
          how \in {"none", "t_plusp", "m_plusq", "r_plusq", "commitment_plusp"} :
          verify_proof_call(context, how)

SpecScheme == InitScheme /\ [][NextScheme]_vars

\* The calls of ChannelManager on the channel it holds, each one completed
\* before the next starts.
NextManager ==
    \/ \E deposit_alice, deposit_bob \in (-1)..MaxDeposit, key_id \in 1..MaxKeys :
          open_channel(deposit_alice, deposit_bob, key_id)
    \/ \E payer \in CallerIds, amount \in 0..MaxAmount : apply_update(payer, amount)
    \/ \E participant \in CallerIds \cup {"none"} : cosign(participant)
    \/ close

SpecManager == Init /\ [][NextManager]_vars

\* ------------------------------------------------------------------ claims
Record == records[channel_id]

\* the ledger holds, for this channel, the channel's current sequence and
\* commitments and its participants' verify keys
Synced ==
    /\ Record.registered
    /\ Record.sequence = state.sequence
    /\ Record.commitments = state.commitments
    /\ Record.verify_keys = [pid \in DOMAIN participants |-> verify_key(participants[pid])]

\* the payloads submitted to cooperative_close that name this channel
Addressed(payload) == "channel_id" \notin payload.absent /\ payload.channel_id = channel_id

SubmittedPayloads == {Changed(s.base, s.change) : s \in Submissions}

\* C1: after open(dA, dB), whatever payments (accepted or rejected) and
\* signatures follow, the two balances add up to dA + dB.
C1_BalanceConserved ==
    opened =>
        state.balances["alice"] + state.balances["bob"]
            = deposits["alice"] + deposits["bob"]

\* C1 witness: two payments have been applied and the second left alice and bob
\* with balances different from their deposits.
C1_Witness ==
    /\ opened
    /\ result.op = "apply_payment" /\ result.status = "ok"
    /\ state.sequence = 2
    /\ state.balances # deposits

SignedRecordState(payload, pid) ==
    /\ "signatures" \notin payload.absent
    /\ pid \in DOMAIN payload.signatures
    /\ payload.signatures[pid].bytes.signer = Record.verify_keys[pid].verifies
    /\ payload.signatures[pid].bytes.message
          = compute_state_digest(channel_id, Record.sequence, Record.commitments)

\* C3: a close marks the open record closed only if every participant's
\* signature in the payload verifies under the stored key against the digest
\* of the record's sequence and commitments; a payload in which a signature
\* is missing or covers another sequence or other commitments fails with
\* InvalidSettlement and leaves the record open.
C3_SignaturesRequired ==
    (opened /\ Record.registered /\ ~Record.closed) =>
        \A payload \in SubmittedPayloads :
            /\ CloseRecords(records, payload)[channel_id].closed
                  => \A pid \in ParticipantIds : SignedRecordState(payload, pid)
            /\ (Addressed(payload) /\ \E pid \in ParticipantIds : ~SignedRecordState(payload, pid))
                  => /\ CloseOutcome(records, payload).status = "InvalidSettlement"
                     /\ ~CloseRecords(records, payload)[channel_id].closed

\* C3 witness: a close whose payload passed the sequence and commitment checks
\* has just been refused for a signature that does not cover the record's
\* state, and the record is still open.
C3_Witness ==
    /\ result.op = "cooperative_close" /\ result.status = "InvalidSettlement"
    /\ result.detail = "Invalid signature for participant"
    /\ Record.registered /\ ~Record.closed

\* C4: the balances a successful close returns are exactly alice's and bob's,
\* each the integer balance the record's commitment was created for (the
\* channel's balance at the record's sequence).
C4_SettledBalancesCommitted ==
    (result.op = "cooperative_close" /\ result.status = "ok") =>
        result.value.settled_balances = history[Record.sequence + 1].balances

\* C5: once the record of a channel is closed it is closed in every later
\* state.
C5_ClosedForever ==
    [][Record.closed => records'[channel_id].closed]_vars

\* C6: a close addressed to a closed record fails with InvalidSettlement
\* whatever the payload, returns nothing and leaves the ledger as it was.
C6_ClosedRecordRejects ==
    Record.closed =>
        \A payload \in SubmittedPayloads :
            Addressed(payload) =>
                /\ CloseOutcome(records, payload).status = "InvalidSettlement"
                /\ CloseOutcome(records, payload).value = EmptyDict
                /\ CloseRecords(records, payload) = records

\* C6 witness: the channel's co-signed payload for the state the ledger holds
\* has just been refused because the record is already settled.
C6_Witness ==
    /\ result.op = "cooperative_close" /\ result.status = "InvalidSettlement"
    /\ result.detail = "Channel already settled"
    /\ Record.closed /\ Synced /\ is_fully_signed

\* C7: a close whose payload carries a sequence other than the record's, lower
\* or higher, fails with InvalidSettlement and closes nothing.
C7_SequenceMustMatch ==
    (opened /\ Record.registered) =>
        \A payload \in SubmittedPayloads :
            (/\ Addressed(payload)
             /\ "sequence" \notin payload.absent
             /\ payload.sequence # Record.sequence)
                => /\ CloseOutcome(records, payload).status = "InvalidSettlement"
                   /\ CloseRecords(records, payload) = records

\* C7 witness: a payload numbered above the open record's sequence has just
\* been refused for its sequence.
C7_Witness ==
    /\ result.op = "cooperative_close" /\ result.status = "InvalidSettlement"
    /\ result.detail = "Sequence mismatch during settlement"
    /\ Record.registered /\ ~Record.closed
    /\ result.input.sequence > Record.sequence

\* C8 as stated: once a payment has taken the channel to sequence 1 or beyond,
\* a close payload with sequence 0 fails with InvalidSettlement.
C8_Original ==
    (opened /\ Record.registered /\ state.sequence >= 1) =>
        \A payload \in SubmittedPayloads :
            (Addressed(payload) /\ "sequence" \notin payload.absent /\ payload.sequence = 0)
                => CloseOutcome(records, payload).status = "InvalidSettlement"

\* C8 amended: once a payment has taken the channel to sequence 1 or beyond
\* and update_state has brought the ledger's record there, a close payload
\* with sequence 0 fails with InvalidSettlement.
C8_StaleSequenceRejected ==
    (opened /\ Record.registered /\ state.sequence >= 1 /\ Record.sequence >= 1) =>
        \A payload \in SubmittedPayloads :
            (Addressed(payload) /\ "sequence" \notin payload.absent /\ payload.sequence = 0)
                => CloseOutcome(records, payload).status = "InvalidSettlement"

\* C8 witness: with channel and record beyond sequence 0, a payload with
\* sequence 0 has just been refused for its sequence.
C8_Witness ==
    /\ result.op = "cooperative_close" /\ result.status = "InvalidSettlement"
    /\ result.detail = "Sequence mismatch during settlement"
    /\ result.input.sequence = 0
    /\ state.sequence >= 1 /\ Record.sequence >= 1 /\ ~Record.closed

\* C9: the sequence the ledger stores for a channel never decreases.
C9_SequenceMonotone ==
    [][Record.registered => records'[channel_id].sequence >= Record.sequence]_vars

\* the changes that give one commitment, signature, opening or proof field a
\* different value (not merely another spelling of the same value)
ValueChanges ==
    {c \in Changes : /\ c.kind \in {"commitment", "signature", "opening", "proof"}
                     /\ c.how \notin {"absent", "upper", "padded"}}

\* C10: when the channel's closing payload would be accepted, the same payload
\* with one commitment, signature, opening or proof field changed to another
\* value is refused and the record stays open.
C10_TamperRejected ==
    (opened /\ CloseOutcome(records, closing_payload(state)).status = "ok") =>
        \A c \in ValueChanges :
            Changed(closing_payload(state), c) # closing_payload(state) =>
                /\ CloseOutcome(records, Changed(closing_payload(state), c)).status # "ok"
                /\ ~CloseRecords(records, Changed(closing_payload(state), c))[channel_id].closed

\* C11: right after every successful apply_payment the channel stores no
\* signature and is_fully_signed() is false, also when the state the payment
\* replaced was signed by both participants.
C11_PaymentClearsSignatures ==
    (result.op = "apply_payment" /\ result.status = "ok") =>
        /\ state.signatures = EmptyDict
        /\ ~is_fully_signed

\* C11 witness: a payment has just succeeded on a state both participants had
\* signed.
C11_Witness ==
    /\ result.op = "apply_payment" /\ result.status = "ok"
    /\ result.input.fully_signed
    /\ state.sequence >= 1

\* C12: in every state of an opened channel, each participant's commitment
\* opens to that participant's balance under the stored opening, and the
\* stored proof verifies against the commitment under the context of
\* (channel_id, current sequence, participant).
C12_CommitmentsOpenAndProve ==
    opened =>
        \A pid \in ParticipantIds :
            /\ verify(state.commitments[pid], state.balances[pid], state.openings[pid])
            /\ verify_opening_proof(state.commitments[pid], state.proofs[pid],
                                    proof_context(channel_id, state.sequence, pid))

\* C12 witness: after two payments and a signature the balances differ from
\* the deposits.
C12_Witness ==
    /\ opened
    /\ state.sequence = 2
    /\ state.balances # deposits
    /\ result.op = "sign_state" /\ result.status = "ok"

\* the outcome C13 states for apply_payment(payer, amount) in the current state
C13_Stated(payer, amount) ==
    IF payer \notin {"alice", "bob"} THEN "InvalidParticipant"
    ELSE IF amount <= 0 THEN "InvalidAmount"
    ELSE IF amount > state.balances[payer] THEN "InsufficientBalance"
    ELSE "ok"

\* C13: apply_payment(payer, amount) fails with InvalidParticipant when payer
\* is neither alice nor bob, otherwise with InvalidAmount when amount <= 0,
\* otherwise with InsufficientBalance when amount exceeds the payer's
\* balance, and succeeds in every other case, a payment of the payer's whole
\* balance included.
C13_PaymentErrors ==
    [][\A payer \in CallerIds, amount \in (-1)..MaxAmount :
          apply_payment(payer, amount) => result'.status = C13_Stated(payer, amount)]_vars

\* C13 witness: a participant who held a positive balance has just paid all of
\* it.
C13_Witness ==
    /\ result.op = "apply_payment" /\ result.status = "ok"
    /\ \E pid \in ParticipantIds :
          /\ history[Len(history) - 1].balances[pid] > 0
          /\ state.balances[pid] = 0

\* C14: whenever apply_payment fails, the channel is exactly as before the
\* call: sequence, balances, commitments, openings, proofs, stored signatures
\* and history are unchanged.
C14_FailedPaymentChangesNothing ==
    [][(result'.op = "apply_payment" /\ result'.status # "ok")
          => /\ state' = state
             /\ history' = history
             /\ participants' = participants
             /\ opened' = opened]_vars

\* C14 witness: a payment has just been refused for insufficient balance on a
\* channel that had advanced and held a signature.
C14_Witness ==
    /\ result.op = "apply_payment" /\ result.status = "InsufficientBalance"
    /\ state.sequence >= 1
    /\ state.signatures # EmptyDict

\* C15: whenever update_state or cooperative_close fails, the ledger's records
\* are as before the call (sequence, commitments, verify keys and closed
\* flag), so the co-signed payload of the state the record stores is still
\* accepted after the failed call.
C15_FailedLedgerCallChangesNothing ==
    [][(result'.op \in {"update_state", "cooperative_close"} /\ result'.status # "ok")
          => /\ records' = records
             /\ (Synced /\ is_fully_signed /\ ~Record.closed)
                   => CloseOutcome(records', closing_payload(state')).status = "ok"]_vars

\* C15 witness: update_state has just been refused for a channel whose
\* sequence is behind the open record's.
C15_Witness ==
    /\ result.op = "update_state" /\ result.status = "InvalidSettlement"
    /\ Record.registered /\ ~Record.closed
    /\ state.sequence < Record.sequence

\* both threads' apply_payment calls have returned successfully
BothPaid == \A t \in Threads : InFlight(t, "done") /\ calls[t].status = "ok"

\* the balances are those call t copied, with t's amount moved from its payer
\* to the other participant
ReflectsOnly(t) ==
    /\ state.balances[calls[t].payer] = calls[t].seen[calls[t].payer] - calls[t].amount
    /\ state.balances[other(calls[t].payer)]
          = calls[t].seen[other(calls[t].payer)] + calls[t].amount

\* C16: when two unlocked apply_payment calls have both passed the balance
\* check and copied the same pre-transfer balances, both return success, the
\* sequence has advanced twice and the final balances carry only one of the
\* two transfers.
C16_LostUpdate ==
    (BothPaid /\ calls["t1"].seen = calls["t2"].seen) =>
        /\ state.sequence = 2
        /\ Len(history) = 3
        /\ \E t \in Threads : ReflectsOnly(t)

\* C16 witness: both calls returned success for the same payer although their
\* amounts add up to more than the balance both read, and the final balances
\* carry one transfer only.
C16_Witness ==
    /\ BothPaid
    /\ calls["t1"].seen = calls["t2"].seen
    /\ calls["t1"].payer = calls["t2"].payer
    /\ calls["t1"].amount + calls["t2"].amount > calls["t1"].seen[calls["t1"].payer]
    /\ \E t \in Threads : ReflectsOnly(t)
    /\ state.balances["alice"] + state.balances["bob"] = deposits["alice"] + deposits["bob"]

\* C17: a ChannelManager.close settles a sequence below the channel's only
\* inside an unlocked apply_update: the close read the co-signed payload, the
\* payment was applied, and the close is accepted before update_state has
\* reached the ledger.
C17_StaleCloseOnlyInsideUpdate ==
    [][(/\ close_submit
        /\ calls'["close"].status = "ok"
        /\ calls'["close"].value.sequence < state.sequence)
          => InFlight("apply_update", "paid")]_vars

\* C17 witness: the close has settled sequence n and closed the record while
\* the channel is at sequence n + 1 and apply_update has not yet called
\* update_state.
C17_Witness ==
    /\ InFlight("close", "done") /\ calls["close"].status = "ok"
    /\ InFlight("apply_update", "paid")
    /\ calls["close"].value.sequence + 1 = state.sequence
    /\ Record.closed /\ Record.sequence = calls["close"].value.sequence
    /\ calls["close"].value.settled_balances # state.balances

\* the participants whose signatures the channel stores
Signers == DOMAIN state.signatures

\* C18: the stored signatures are those of the participants who called
\* sign_state successfully since the channel was opened or since the last
\* successful apply_payment (a successful open or payment leaves none, a
\* successful sign_state(p) adds p, nothing else changes them), and
\* is_fully_signed() is true exactly when these are both alice and bob.
C18_FullySignedIffBothSigned ==
    [][/\ (result'.op \in {"open", "open_channel", "apply_payment"} /\ result'.status = "ok")
            => (Signers' = {} /\ ~is_fully_signed')
       /\ \A pid \in CallerIds :
            (sign_state(pid) /\ result'.status = "ok") => Signers' = Signers \cup {pid}
       /\ ~(result'.op \in {"open", "open_channel", "apply_payment", "sign_state"}
              /\ result'.status = "ok")
            => Signers' = Signers
       /\ opened' => (is_fully_signed' <=> (Signers' = {"alice", "bob"}))
       /\ (opened' /\ Cardinality(Signers') < 2) => ~is_fully_signed']_vars

\* C18 witness: after a payment, the second of the two participants has just
\* signed and the state is fully signed.
C18_Witness ==
    /\ result.op = "sign_state" /\ result.status = "ok"
    /\ state.sequence >= 1
    /\ Signers = {"alice", "bob"}
    /\ is_fully_signed

\* C19: sign_state(p) for p alice or bob stores p's signature over the current
\* state digest and leaves sequence, balances, commitments, openings, proofs,
\* the other participant's signature and the history as they were; when p's
\* signature on this state is already stored the call leaves the channel as
\* it is; for any other id it fails with InvalidParticipant and changes
\* nothing.
C19_SignStateEffect ==
    [][\A pid \in CallerIds :
          sign_state(pid) =>
            IF pid \in {"alice", "bob"}
            THEN /\ result'.status = "ok"
                 /\ state'.signatures[pid].signer = participants[pid]
                 /\ state'.signatures[pid].message
                       = compute_state_digest(channel_id, state.sequence, state.commitments)
                 /\ [state' EXCEPT !.signatures = EmptyDict]
                       = [state EXCEPT !.signatures = EmptyDict]
                 /\ \A o \in DOMAIN state.signatures \ {pid} :
                       o \in DOMAIN state'.signatures
                         /\ state'.signatures[o] = state.signatures[o]
                 /\ DOMAIN state'.signatures = DOMAIN state.signatures \cup {pid}
                 /\ history' = history
                 /\ (pid \in DOMAIN state.signatures => state' = state)
            ELSE /\ result'.status = "InvalidParticipant"
                 /\ state' = state
                 /\ history' = history]_vars

\* C19 witness: a participant has just signed a state that already carried
\* the other participant's signature, which is still stored.
C19_Witness ==
    /\ result.op = "sign_state" /\ result.status = "ok"
    /\ state.sequence >= 1
    /\ \A pid \in ParticipantIds :
          /\ pid \in DOMAIN state.signatures
          /\ state.signatures[pid].signer = participants[pid]
          /\ state.signatures[pid].message = state_digest

\* C20: the history is append-only. A successful open leaves exactly one
\* snapshot, of sequence 0; a successful apply_payment appends exactly one
\* snapshot, of the new state; every other call (sign_state, failed calls,
\* the exports of closing_payload and the ledger calls) leaves the history as
\* it is; hence len(history) = sequence + 1 and history[i].sequence = i.
C20_HistoryAppendOnly ==
    [][/\ IF result'.op \in {"open", "open_channel"} /\ result'.status = "ok"
          THEN Len(history') = 1 /\ history'[1].sequence = 0
          ELSE IF result'.op = "apply_payment" /\ result'.status = "ok"
          THEN /\ history' = Append(history, clone(state'))
               /\ state'.sequence = state.sequence + 1
          ELSE history' = history
       /\ opened' =>
            /\ Len(history') = state'.sequence + 1
            /\ \A i \in 1..Len(history') : history'[i].sequence = i - 1]_vars

\* C20 witness: after two payments and a signature the history holds the
\* three snapshots of sequences 0, 1 and 2, the last with the live balances.
C20_Witness ==
    /\ opened
    /\ state.sequence = 2
    /\ Len(history) = 3
    /\ \A i \in 1..3 : history[i].sequence = i - 1
    /\ history[3].balances = state.balances
    /\ history[1].balances = deposits
    /\ state.signatures # EmptyDict

\* the keys under which an exported state carries its balances and openings
OpeningKeys == {"openings", "balances"}

\* the channel state with its balances and openings blanked
Concealed(st) == [st EXCEPT !.balances = EmptyDict, !.openings = EmptyDict]

\* C21: the outputs of snapshot, history_snapshots and of the API state and
\* history views carry no opening and no balance of the current or of any past
\* state: they have no such key and they are the same whatever the balances and
\* openings are, while closing_payload carries the openings and balances of the
\* current state.
C21_OnlyClosingPayloadOpens ==
    opened =>
        /\ DOMAIN snapshot(state) \cap OpeningKeys = {}
        /\ DOMAIN state_response(state, participants) \cap OpeningKeys = {}
        /\ DOMAIN history_response(history) \cap OpeningKeys = {}
        /\ \A i \in 1..Len(history) :
              /\ DOMAIN history_snapshots(history)[i] \cap OpeningKeys = {}
              /\ DOMAIN history_response(history).history[i] \cap OpeningKeys = {}
        /\ snapshot(Concealed(state)) = snapshot(state)
        /\ state_response(Concealed(state), participants) = state_response(state, participants)
        /\ history_snapshots([i \in 1..Len(history) |-> Concealed(history[i])])
               = history_snapshots(history)
        /\ history_response([i \in 1..Len(history) |-> Concealed(history[i])])
               = history_response(history)
        /\ OpeningKeys \subseteq DOMAIN closing_payload(state)
        /\ closing_payload(state).balances = state.balances
        /\ \A pid \in ParticipantIds :
              deserialize_opening(closing_payload(state).openings[pid]) = state.openings[pid]

\* a paid, co-signed channel whose history holds two states of different balances
C21_Witness ==
    /\ opened
    /\ Len(history) = 2
    /\ history[1].balances # history[2].balances
    /\ is_fully_signed
    /\ closing_payload(state).openings # EmptyDict
    /\ closing_payload(Concealed(state)) # closing_payload(state)
\* C22: every channel Channel.open returns, with generated or with
\* caller-supplied signing keys, has exactly the participants alice and bob, so
\* a fully signed state holds two signatures and a registered record holds two
\* verify keys.
C22_TwoParticipants ==
    opened =>
        /\ DOMAIN participants = ParticipantIds
        /\ is_fully_signed => Cardinality(DOMAIN state.signatures) = 2
        /\ Record.registered => Cardinality(DOMAIN Record.verify_keys) = 2
\* what C23 states of Channel.open(deposit_alice, deposit_bob), called directly
\* or by ChannelManager.open_channel
C23_Stated(deposit_alice, deposit_bob) ==
    IF deposit_alice < 0 \/ deposit_bob < 0
    THEN /\ result'.status = "InvalidAmount"
         /\ UNCHANGED <<opened, participants, state, history, deposits, records>>
    ELSE /\ result'.status = "ok"
         /\ opened'
         /\ state'.sequence = 0
         /\ state'.balances = [pid \in ParticipantIds |->
                                  IF pid = "alice" THEN deposit_alice ELSE deposit_bob]
         /\ state'.signatures = EmptyDict
         /\ Len(history') = 1

\* C23: Channel.open fails with InvalidAmount and creates no channel when a
\* deposit is negative; otherwise, zero deposits included, it returns a channel
\* at sequence 0 with the deposits as balances, no signature and a history of
\* one snapshot.
C23_OpenOutcome ==
    [][result'.op \in {"open", "open_channel"} =>
          \A deposit_alice, deposit_bob \in (-1)..MaxDeposit, key_id \in 1..MaxKeys :
             (Open(deposit_alice, deposit_bob, key_id)
                \/ open_channel(deposit_alice, deposit_bob, key_id))
             => C23_Stated(deposit_alice, deposit_bob)]_vars

\* a channel opened with zero deposits, and a later open with a negative
\* deposit that failed and left it alone
C23_Witness ==
    /\ result.op = "open_channel"
    /\ result.status = "InvalidAmount"
    /\ opened
    /\ ~Record.registered
    /\ state.sequence = 0
    /\ state.balances = [pid \in ParticipantIds |-> 0]
    /\ Len(history) = 1
\* C24: for a channel id the ledger holds no record of, cooperative_close
\* (whatever else the payload holds) and update_state fail with UnknownChannel
\* and the ledger's records stay as they were, without a record for that id.
C24_UnknownChannel ==
    /\ [](opened =>
            \A payload \in SubmittedPayloads :
                ("channel_id" \notin payload.absent
                    /\ ~records[payload.channel_id].registered)
                => /\ CloseOutcome(records, payload).status = "UnknownChannel"
                   /\ CloseRecords(records, payload) = records)
    /\ [][(result'.op = "update_state" /\ ~Record.registered)
            => /\ result'.status = "UnknownChannel"
               /\ records' = records]_vars

\* the co-signed payload of a channel that was opened and never registered has
\* just been refused
C24_Witness ==
    /\ result.op = "cooperative_close"
    /\ result.status = "UnknownChannel"
    /\ result.detail = channel_id
    /\ opened /\ is_fully_signed
    /\ \A cid \in DOMAIN records : ~records[cid].registered
\* C25: with a randomness r of [1, q-1], verify of commit(m, r) against a
\* message m' and the opening r is true when m' and m are equal modulo q and
\* false for every other m'.
C25_VerifyIffSameMessage ==
    (/\ result.op = "verify"
     /\ calls.randomness \in 1..(q - 1)
     /\ result.value.commitment = commit(calls.message, calls.randomness))
    => (result.value.verified <=> result.value.message % q = calls.message % q)

\* a commitment has been verified against another integer than the one
\* committed to, equal to it modulo q, with the largest randomness
C25_Witness ==
    /\ result.op = "verify"
    /\ calls.randomness = q - 1
    /\ result.value.commitment = commit(calls.message, calls.randomness)
    /\ result.value.message # calls.message
    /\ result.value.verified

\* C26: the aggregate of commit(m1, r1) and commit(m2, r2) under
\* add_commitments verifies against add_messages([m1, m2]), which is
\* (m1 + m2) mod q, with the opening add_openings gives for r1 and r2.
C26_AddIsHomomorphic ==
    result.op = "add_commitments" =>
        /\ \E message \in MessageInputs :
              result.value.message = (calls.message + message) % q
        /\ verify(result.value.commitment, result.value.message, result.value.opening)

\* an aggregate whose message sum and whose opening sum both wrapped around q
C26_Witness ==
    /\ result.op = "add_commitments"
    /\ calls.message \in 1..(q - 1)
    /\ calls.randomness \in 1..(q - 1)
    /\ result.value.message < calls.message
    /\ result.value.opening < calls.randomness
    /\ result.value.opening > 0
    /\ verify(result.value.commitment, result.value.message, result.value.opening)

\* C27: a proof prove_opening produced under a context, for a message and a
\* randomness of [1, q-1], verifies under that context and under no other.
C27_ProofBoundToContext ==
    (/\ result.op = "verify_opening_proof"
     /\ result.value.how = "none"
     /\ calls.randomness \in 1..(q - 1))
    => (result.value.verified <=> result.value.checked = result.value.context)

\* the last call was given a number outside the range the scheme works in: a
\* randomness or a response outside [0, q), a commitment or a t outside [0, p)
OutOfDomain ==
    \/ /\ result.op \in {"commit", "verify", "add_commitments", "prove_opening"}
       /\ calls.randomness \notin 0..(q - 1)
    \/ /\ result.op \in {"verify", "verify_opening_proof"}
       /\ result.value.commitment \notin 0..(p - 1)
    \/ /\ result.op = "verify_opening_proof"
       /\ \/ result.value.proof.t \notin 0..(p - 1)
          \/ result.value.proof.response_m \notin 0..(q - 1)
          \/ result.value.proof.response_r \notin 0..(q - 1)

\* C28: a commitment-scheme call given a number outside its range fails with
\* InvalidParameter instead of returning a result.
C28_OutOfDomainRejected ==
    OutOfDomain => result.status = "InvalidParameter"
\* C29: once cooperative_close has closed a record, no update_state is
\* accepted for it: an update_state call on a closed record fails and leaves
\* the record's sequence and commitments as they were.
C29_ClosedRecordFrozen ==
    [][(Record.closed /\ result'.op = "update_state")
          => /\ result'.status # "ok"
             /\ records'[channel_id].sequence = Record.sequence
             /\ records'[channel_id].commitments = Record.commitments]_vars
\* C30: with the manager's calls made one at a time, after every completed
\* call the record holds the channel's current sequence and commitments; and
\* whenever the record is not closed, signing by both participants followed
\* by close succeeds and settles the channel's current balances.
C30_ManagerKeepsLedgerInStep ==
    opened =>
        /\ Record.registered
        /\ Record.sequence = state.sequence
        /\ Record.commitments = state.commitments
        /\ ~Record.closed =>
              LET signed == [state EXCEPT !.signatures = AllSigned(participants, state)]
                  outcome == CloseOutcome(records, closing_payload(signed))
              IN  /\ outcome.status = "ok"
                  /\ outcome.value.settled_balances = state.balances
                  /\ outcome.value.sequence = state.sequence
                  /\ CloseRecords(records, closing_payload(signed))[channel_id].closed

\* a paid channel has just been settled through the manager at its current
\* balances, which differ from the deposits
C30_Witness ==
    /\ result.op = "close" /\ result.status = "ok"
    /\ state.sequence = 2
    /\ Record.closed /\ Record.sequence = 2
    /\ result.value.settled_balances = state.balances
    /\ state.balances # deposits
\* C31: after any sequence of open, apply_payment and sign_state calls every
\* stored signature is a signature of its participant on the current state
\* digest, verify_signatures returns what is_fully_signed returns, and it
\* returns false when a participant's signature is missing.
C31_VerifySignaturesIsFullySigned ==
    opened =>
        /\ \A pid \in DOMAIN state.signatures :
              /\ pid \in DOMAIN participants
              /\ VerifyKeyVerify(verify_key(participants[pid]), state_digest,
                                 state.signatures[pid])
        /\ verify_signatures <=> is_fully_signed
        /\ (\E pid \in DOMAIN participants : pid \notin DOMAIN state.signatures)
              => ~verify_signatures

\* after two payments alice has signed the state and bob has not yet
C31_Witness ==
    /\ opened
    /\ state.sequence = 2
    /\ DOMAIN state.signatures = {"alice"}
    /\ ~verify_signatures
    /\ ~is_fully_signed
\* C32: every entry of the channel history, and of its serialized view, has
\* an empty signature map: a snapshot is taken at open and after a payment has
\* cleared the signatures, and signing the live state leaves the history as it
\* is.
C32_HistoryHoldsNoSignature ==
    opened =>
        \A i \in 1..Len(history) :
            /\ history[i].signatures = EmptyDict
            /\ history_snapshots(history)[i].signatures = EmptyDict

\* the state reached by two payments is co-signed, and its snapshot, the
\* newest history entry, differs from it in the signatures alone
C32_Witness ==
    /\ opened
    /\ Len(history) = 3
    /\ is_fully_signed
    /\ history[3] # state
    /\ history[3] = [state EXCEPT !.signatures = EmptyDict]
====
